---- MODULE Spec2Model ----
(***************************************************************************)
(* Model of the orchestration core of the PALFA pipeline2.0 repository:    *)
(*   - the download orchestrator  (src/Downloader.py, specification Spec)  *)
(*   - the job lifecycle manager  (src/job.py, specification JobSpec)      *)
(*   - the store access function  (src/lib/jobtracker.py, specifications  *)
(*     QuerySpec and ConcSpec)                                             *)
(*   - the driver loop of the job manager (src/StartJobPool.py), as the   *)
(*     handler of the exceptions that leave rotate                        *)
(* WorkerSpec, FaultSpec and LiveSpec are the download orchestrator with  *)
(* a faulty FTP server, an interrupted row creation, and fair scheduling. *)
(* The durable store (requests, downloads, download_attempts), the local   *)
(* staging directory and the per-job log files are persisted state; the    *)
(* restore objects, their worker maps and the worker threads are process   *)
(* memory and are lost by a crash.                                         *)
(***************************************************************************)
EXTENDS Integers, Sequences, FiniteSets, TLC

(* ------------------------------ bounds -------------------------------- *)
\* number of crashes of the orchestrator process in one behaviour
MaxCrashes == 2
\* number of qsub calls in one behaviour
MaxSubmits == 3
\* the largest config.max_attempts (the failures after which a job is given up)
MaxAttempts == 2
\* number of connection tries of one download worker that end in an exception
MaxConnTries == 2

(* ------------------------ program configuration ----------------------- *)
\* config.download.numrestores
NumRestores == 2
\* config.download.numretries
NumRetries == 3
\* config.download.space_to_use, scaled to the model's file sizes
SpaceToUse == 2

FileA == "a.w4bit.fits"
FileAux == "c7.w4bit.fits"
File100 == "b0.w4bit.fits"
File200 == "b1.w4bit.fits"
File300 == "b2.w4bit.fits"

NULL == -1

\* no restore request was made
NotAsked == -2

\* faulty variant: no file of the listing is skipped
ExcludedNone(f) == FALSE

\* re.match('.*7\.w4bit\.fits', file): the auxiliary format that is skipped
Excluded(f) == f = FileAux

\* ftp.nlst() in the restore directory of guid g (the remote service's
\* data): the first two restores hold the same data file, the first also an
\* auxiliary file, the third only an auxiliary file, the fourth three data
\* files, the fifth two data files and an auxiliary file
Listing(g) ==
    CASE g = 1 -> {FileA, FileAux}
      [] g = 2 -> {FileA}
      [] g = 3 -> {FileAux}
      [] g = 5 -> {File100, File200, FileAux}
      [] OTHER -> {File100, File200, File300}

\* ftp.size(file): the size of a remote file
FileSize(f) ==
    CASE f = FileAux -> 2
      [] f = File100 -> 100
      [] f = File200 -> 200
      [] f = File300 -> 300
      [] OTHER -> 1

VARIABLES
    \* ---- durable store and disk (survive a crash)
    reqRows,      \* requests table: guids in insertion order
    reqStatus,    \* requests.status by guid ("none": no row)
    reqSize,      \* requests.size by guid (NULL until get_files)
    dl,           \* downloads table: [guid][remote_filename] -> row
    attempts,     \* download_attempts: [guid][file] -> sequence of statuses
    local,        \* staging directory: file -> size on disk (NULL: absent)
    \* ---- memory of the orchestrator process (lost by a crash)
    up,           \* the process is running
    restores,     \* DownloadModule.restores: sequence of guids
    queue,        \* the copy self.restores[:] still to be visited this tick
    valSize,      \* restore.values['size'] (cache of the row)
    files,        \* restore.files (keys)
    msize,        \* restore.size
    downloaders,  \* restore.downloaders: [guid][file] -> attempt index, 0 none
    threads,      \* downloader threads of this process
    \* ---- history (observation only)
    prior,        \* working set at the moment of the last crash
    dropped,      \* guids the current/last run removed from its working set
    recov,        \* recover() has just run
    reclass,      \* the last restore.run() turned a worker's "downloaded"
                  \* into "failed" because the sizes differ
    capped,       \* the last restore.run() left a download without a new
                  \* worker because its attempts are used up
    crashes,      \* crashes so far
    faults,       \* the failures the FTP listing of get_files can meet
    pool,         \* the guids the remote service answers with
    fate,         \* per file: its transfers end in any way, always well,
                  \* or always in failure
    asked,        \* the answer of the remote service to the restore request
                  \* of the tick that has just started (NotAsked otherwise)
    \* ---- job lifecycle manager (src/job.py): files on disk and configuration
    jfiles,       \* PulsarSearchJob.datafiles of each job
    disk,         \* the raw datafiles that exist
    logfile,      \* the log file of each job: its entries' statuses (<<>>: no file)
    deleteRaw,    \* config.delete_rawdata
    maxAttempts,  \* config.max_attempts
    foreignQ,     \* queued jobs of the batch queue under other names
    pbsQ,         \* queued (Q) pipeline jobs in the batch queue, per job
    pbsR,         \* running (R) pipeline jobs in the batch queue, per job
    \* ---- memory of the manager process
    jpc,          \* "down", "idle" (between passes) or "pass" (inside rotate)
    jobs,         \* JobPool.jobs
    logentries,   \* JobLog.logentries of each job
    idx,          \* position of the loop "for job in self.jobs"
    cansubmit,    \* the local variable of rotate
    \* ---- history (observation only)
    nsub,         \* qsub calls of the current pass
    subs,         \* qsub calls so far, per job
    sublen,       \* per job, the length of its log file at its last qsub
    err,          \* the exception that ended the last pass ("" if none)
    notified,     \* the error notifier of the driver: "" (not invoked), "sent"
                  \* (it returned) or "failed" (it raised)
    \* ---- JobLog.read (src/job.py) on one log file
    rawlog,       \* the lines of the file, each a sequence of pieces of text
    rdpc,         \* "start", "done"
    rdentries,    \* the entries read() returned
    rderr,        \* the exception read() raised ("" if none)
    \* ---- jobtracker.query (src/lib/jobtracker.py) on one batch
    qbatch,       \* the statements of the call: "dml" or "select"
    qpc,          \* "connect", "exec", "commit", "returned", "raised"
    qi,           \* the statement to execute next
    qconn,        \* db_conn: "undef", "open" or "closed"
    qtx,          \* per statement, its effects in the open transaction
    qdb,          \* per statement, its effects committed to the database
    qcount,       \* the local variable count
    qfails,       \* OperationalErrors met so far: [lock, open]
    qerr,         \* the exception query() raised ("" if none)
    \* ---- concurrent calls of jobtracker.query on one database
    cbatch,       \* per caller, the statements of its call
    cpc,          \* per caller: "exec", "commit" or "returned"
    ci,           \* per caller, the statement to execute next
    clock,        \* per caller, the lock its connection holds on the file
    cpriv,        \* per caller, the value its open transaction has written
    cres,         \* per caller, the row its cursor holds (results)
    cdb,          \* the committed value of the row
    cbusy         \* "database is locked" errors so far

dlStore == <<reqRows, reqStatus, reqSize, dl, attempts, local>>
dlMem == <<up, restores, queue, valSize, files, msize, downloaders, threads>>
dlHist == <<prior, dropped, recov, reclass, capped, crashes, faults, pool, fate>>
dlVars == <<dlStore, dlMem, dlHist, asked>>
jobStore == <<jfiles, disk, logfile, deleteRaw, maxAttempts, foreignQ, pbsQ, pbsR>>
jobMem == <<jpc, jobs, logentries, idx, cansubmit>>
jobHist == <<nsub, subs, sublen, err, notified>>
jobvars == <<jobStore, jobMem, jobHist>>
rdVars == <<rawlog, rdpc, rdentries, rderr>>
qVars == <<qbatch, qpc, qi, qconn, qtx, qdb, qcount, qfails, qerr>>
cVars == <<cbatch, cpc, ci, clock, cpriv, cres, cdb, cbusy>>
libVars == <<rdVars, qVars, cVars>>
vars == <<dlVars, jobvars, libVars>>

\* a (request, remote file) without a row in the downloads table; copies is
\* the number of rows the table holds for that request and remote filename
NoRow == [status |-> "none", size |-> 0, copies |-> 0]

Range(s) == {s[i] : i \in 1..Len(s)}

RECURSIVE SumOver(_, _)
SumOver(S, fn) ==
    IF S = {} THEN 0
    ELSE LET x == CHOOSE y \in S : TRUE IN fn[x] + SumOver(S \ {x}, fn)

RemoveFirst(s, x) ==
    LET i == CHOOSE k \in 1..Len(s) : s[k] = x /\ \A m \in 1..(k-1) : s[m] # x
    IN SubSeq(s, 1, i-1) \o SubSeq(s, i+1, Len(s))

(* ---------------------------- initial state --------------------------- *)
\* the files in the restore directories of the guids of P
ListedIn(P) == UNION {Listing(g) : g \in P}

\* no file is bound to succeed or to fail
AnyFate(P) == [f \in ListedIn(P) |-> "any"]

\* the empty store and memory, for a remote service that answers with P
DLEmpty(P) ==
    /\ reqRows = <<>>
    /\ reqStatus = [g \in P |-> "none"]
    /\ reqSize = [g \in P |-> NULL]
    /\ dl = [g \in P |-> [f \in ListedIn(P) |-> NoRow]]
    /\ attempts = [g \in P |-> [f \in ListedIn(P) |-> <<>>]]
    /\ local = [f \in ListedIn(P) |-> NULL]
    /\ restores = <<>>
    /\ queue = <<>>
    /\ valSize = [g \in P |-> NULL]
    /\ files = [g \in P |-> {}]
    /\ msize = [g \in P |-> 0]
    /\ downloaders = [g \in P |-> [f \in ListedIn(P) |-> 0]]
    /\ threads = {}
    /\ prior = {}
    /\ dropped = {}
    /\ recov = FALSE
    /\ reclass = FALSE
    /\ capped = FALSE
    /\ crashes = 0
    /\ asked = NotAsked

\* DownloadModule.__init__ on an empty store; the listing of get_files can
\* meet a rejected login or a missing restore directory
InitDL ==
    /\ DLEmpty({1, 2}) /\ pool = {1, 2} /\ fate = AnyFate({1, 2})
    /\ up = TRUE /\ faults = {"login", "nodir"}

\* the guids and the files of a behaviour
GUIDs == DOMAIN reqStatus
Files == DOMAIN local

(* ------------------------- store queries ------------------------------ *)
\* SQL "status LIKE 'x'" with a pattern without wildcards: the status text is x
Like(st, pat) == st = pat

\* SELECT * FROM downloads WHERE request_id = g (the files that have a row)
RowsOf(g) == {f \in Files : dl[g][f].status # "none"}

NoDownloaders(g) == \A f \in Files : downloaders[g][f] = 0

\* DownloadModule.get_available_space: quota minus the bytes found on disk
FolderSize == SumOver({f \in Files : local[f] # NULL}, local)
GetAvailableSpace == SpaceToUse - FolderSize

\* total_size of can_request_more: the cached sizes that are set and non-zero
TotalSize ==
    SumOver({g \in Range(restores) : valSize[g] # NULL /\ valSize[g] # 0},
            valSize)

\* faulty variant: the count of the working set is not tested
CanRequestMoreNoCount == (GetAvailableSpace - TotalSize) > 0

\* faulty variant: the remaining space is not tested
CanRequestMoreNoSpace == Len(restores) < NumRestores

CanRequestMore ==
    IF Len(restores) >= NumRestores THEN FALSE
    ELSE (GetAvailableSpace - TotalSize) > 0

(* --------------------- DownloadModule.run: one tick ------------------- *)
\* restore.request(): the answer of the remote service is a guid or "fail"
\* (RespFail), or the call raises URLError (RespURLError). A row is inserted, and the restore kept,
\* only for a guid that has no row yet.
RespFail == 0
RespURLError == -1
\* faulty variant: the row is inserted without looking for the guid
RequestInsertsUnchecked(resp) == resp \in GUIDs

\* "if self.get_by_guid(self.guid) != list(): .. else: INSERT"
RequestInserts(resp) == resp \in GUIDs /\ reqStatus[resp] = "none"

\* faulty variant: after the answer "fail" the request is made again and the
\* guid of the second answer is used
RequestRetrying(resp) ==
    \E r \in (IF resp = RespFail THEN pool ELSE {resp}) :
        IF RequestInserts(r)
        THEN /\ reqRows' = Append(reqRows, r)
             /\ reqStatus' = [reqStatus EXCEPT ![r] = "waiting"]
             /\ restores' = Append(restores, r)
        ELSE UNCHANGED <<reqRows, reqStatus, restores>>

Request(resp) ==
    IF RequestInserts(resp)
    THEN /\ reqRows' = Append(reqRows, resp)
         /\ reqStatus' = [reqStatus EXCEPT ![resp] = "waiting"]
         /\ restores' = Append(restores, resp)
    ELSE UNCHANGED <<reqRows, reqStatus, restores>>

\* top of the while loop: admission, then the copy self.restores[:]
TickStart ==
    /\ up /\ queue = <<>>
    /\ \E resp \in pool \cup {RespFail, RespURLError} :
          IF CanRequestMore
          THEN Request(resp) /\ asked' = resp
          ELSE UNCHANGED <<reqRows, reqStatus, restores>> /\ asked' = NotAsked
    /\ queue' = restores'
    /\ recov' = FALSE
    /\ dropped' = IF recov THEN {} ELSE dropped
    /\ prior' = {}
    /\ UNCHANGED <<reqSize, dl, attempts, local, up, valSize, files, msize,
                   downloaders, threads, reclass, capped, crashes, faults, pool, fate,
                   jobvars, libVars>>

(* ------------------------- restore.is_finished ------------------------ *)
\* the retry test of is_finished on a failed download with n attempts
\* faulty variant: a failed download always blocks completion
BlocksCompletionAlways(n) == TRUE

BlocksCompletion(n) == NumRetries < n

\* faulty variant: the downloads still 'downloading' are not looked at
IsFinishedIgnoringDownloading(g) ==
    IF RowsOf(g) = {} /\ NoDownloaders(g) THEN FALSE
    ELSE IF \A f \in RowsOf(g) : Like(dl[g][f].status, "downloaded") THEN TRUE
    ELSE IF \E f \in RowsOf(g) : /\ Like(dl[g][f].status, "failed")
                                 /\ BlocksCompletion(Len(attempts[g][f]))
         THEN FALSE
    ELSE TRUE

IsFinished(g) ==
    IF \E f \in RowsOf(g) : Like(dl[g][f].status, "downloading") THEN FALSE
    ELSE IF RowsOf(g) = {} /\ NoDownloaders(g) THEN FALSE
    ELSE IF \A f \in RowsOf(g) : Like(dl[g][f].status, "downloaded") THEN TRUE
    ELSE IF \E f \in RowsOf(g) : /\ Like(dl[g][f].status, "failed")
                                 /\ BlocksCompletion(Len(attempts[g][f]))
         THEN FALSE
    ELSE TRUE

(* -------------------------- restore.get_files ------------------------- *)
NonExcluded(g) == {f \in Listing(g) : ~Excluded(f)}
ListedSize(S) == SumOver(S, [f \in Files |-> FileSize(f)])

\* outcomes of one call: "ok" (listing sized at the first try), "retry" (a
\* transient FTP error after the files of part were sized, then a full
\* pass), "login" (login answer rejected), "nodir" (cwd raised)
GetFilesOutcomes == {"ok"} \cup faults

GetFilesSize(g, out, part) ==
    IF out = "ok" THEN msize[g] + ListedSize(NonExcluded(g))
    ELSE IF out = "retry"
         THEN msize[g] + ListedSize(part) + ListedSize(NonExcluded(g))
    ELSE msize[g]

GetFilesFiles(g, out) ==
    IF out \in {"ok", "retry"} THEN NonExcluded(g) ELSE files[g]

(* --------------------------- restore.download ------------------------- *)
\* faulty variant: the worker map is not consulted
NotRunningUnchecked(g, f) == TRUE

\* "if not dl_entry['remote_filename'] in self.downloaders"
NotRunning(g, f) == downloaders[g][f] = 0

\* faulty variant: off by one, a worker is still created at the ceiling
RetryAllowedAtCeiling(count) == NumRetries >= count

\* "if config.download.numretries > this_download_attempts_count"
RetryAllowed(count) == NumRetries > count

\* "INSERT INTO downloads (..) VALUES (.., 'New', .., size)": one more row
\* for file f beside the row r
Inserted(r, f) ==
    [status |-> IF r.status = "none" THEN "New" ELSE r.status,
     size |-> FileSize(f), copies |-> r.copies + 1]

\* faulty variant: the entries are created at every call of download()
CreatedAlways(g, fl) ==
    [f \in Files |-> IF f \in fl THEN Inserted(dl[g][f], f) ELSE dl[g][f]]

\* create_dl_entries, called when the restore has no worker and no row. Its
\* own test "filename = '<remote name>'" compares the stored local path with
\* the bare remote name and finds no row, so every file of the dict is inserted
Created(g, fl) ==
    IF NoDownloaders(g) /\ RowsOf(g) = {}
    THEN [f \in Files |-> IF f \in fl THEN Inserted(dl[g][f], f) ELSE dl[g][f]]
    ELSE dl[g]

\* the entries that get a new Attempt row and a worker
Spawned(g, rows) ==
    {f \in Files : /\ rows[f].status # "none"
                   /\ ~Like(rows[f].status, "downloaded")
                   /\ NotRunning(g, f)
                   /\ RetryAllowed(Len(attempts[g][f]))}

\* rej: the server has answered the login or the cwd of this worker with
\* another text than the expected one; tries: the exceptions its connection
\* loop has met
NewThread(g, f, n) ==
    [g |-> g, f |-> f, n |-> n, pc |-> "conn", status |-> "",
     rej |-> FALSE, tries |-> 0]

\* faulty variant: only the existence of the local file is checked
DownloadedSizeMatchExists(row, f) == local[f] # NULL

\* downloaded_size_match: the local file exists and has the row's size
DownloadedSizeMatch(row, f) == local[f] # NULL /\ local[f] = row.size

\* what the reconciliation loop writes for a worker: "nowrite" when a dead
\* worker's status is neither failed nor downloaded
Reconciled(t, row) ==
    IF t.pc # "dead" THEN "downloading"
    ELSE IF t.status = "failed" THEN "failed"
    ELSE IF t.status = "downloaded"
         THEN (IF DownloadedSizeMatch(row, t.f) THEN "downloaded" ELSE "failed")
    ELSE "nowrite"

\* "UPDATE downloads SET status = .. WHERE remote_filename = f": the rows
\* of every request that carry this remote filename
RowTouched(g, g2, f) == TRUE

Download(g, fl) ==
    LET rows == Created(g, fl)
        sp   == Spawned(g, rows)
        dlr1 == [f \in Files |-> IF f \in sp THEN Len(attempts[g][f]) + 1
                                 ELSE downloaders[g][f]]
        att1 == [f \in Files |-> IF f \in sp THEN Append(attempts[g][f], "")
                                 ELSE attempts[g][f]]
        thr1 == threads \cup {NewThread(g, f, dlr1[f]) : f \in sp}
        keys == {f \in Files : dlr1[f] # 0}
        T(f) == CHOOSE t \in thr1 : t.g = g /\ t.f = f /\ t.n = dlr1[f]
        out(f) == Reconciled(T(f), rows[f])
        wr   == {f \in keys : out(f) # "nowrite"}
        base == [dl EXCEPT ![g] = rows]
    IN  /\ dl' = [g2 \in GUIDs |-> [f \in Files |->
                    IF f \in wr /\ base[g2][f].status # "none" /\ RowTouched(g, g2, f)
                    THEN [base[g2][f] EXCEPT !.status = out(f)]
                    ELSE base[g2][f]]]
        /\ attempts' = [attempts EXCEPT ![g] = [f \in Files |->
                    IF f \in wr THEN [att1[f] EXCEPT ![dlr1[f]] = out(f)]
                    ELSE att1[f]]]
        /\ downloaders' = [downloaders EXCEPT ![g] = [f \in Files |->
                    IF f \in keys /\ T(f).pc = "dead" THEN 0 ELSE dlr1[f]]]
        /\ threads' = {t \in thr1 : ~(t.g = g /\ t.pc = "dead")}
        /\ capped' = \E f \in Files : /\ rows[f].status # "none"
                                       /\ ~Like(rows[f].status, "downloaded")
                                       /\ NotRunning(g, f)
                                       /\ ~RetryAllowed(Len(attempts[g][f]))
        /\ reclass' = \E f \in keys : /\ T(f).pc = "dead"
                                      /\ T(f).status = "downloaded"
                                      /\ out(f) = "failed"

(* ------------------------------ restore.run --------------------------- *)
Drop(g) ==
    /\ restores' = RemoveFirst(restores, g)
    /\ dropped' = dropped \cup {g}

Keep == UNCHANGED <<restores, dropped>>

\* faulty variant: the row is marked finished as soon as the location is known
AfterLocationFinished(st, resp) == IF resp = "done" THEN "finished" ELSE st

\* getLocation: the status of the row after the remote answer
AfterLocation(st, resp) == IF resp = "done" THEN "ready" ELSE st

\* status "waiting": getLocation
RunWaiting(g) ==
    /\ reqStatus[g] = "waiting"
    /\ \E resp \in {"done", "other"} :
          reqStatus' = [reqStatus EXCEPT ![g] = AfterLocation(reqStatus[g], resp)]
    /\ Keep
    /\ reclass' = FALSE
    /\ capped' = FALSE
    /\ UNCHANGED <<reqSize, dl, attempts, files, msize, downloaders, threads>>

\* status "ready", is_finished() true: the row is marked and the restore dropped
RunReadyFinished(g) ==
    /\ reqStatus[g] = "ready"
    /\ IsFinished(g)
    /\ reqStatus' = [reqStatus EXCEPT ![g] = "finished"]
    /\ Drop(g)
    /\ reclass' = FALSE
    /\ capped' = FALSE
    /\ UNCHANGED <<reqSize, dl, attempts, files, msize, downloaders, threads>>

\* status "ready", not finished: get_files() if the file dict is empty,
\* then download(); run() returns True whatever get_files returned
RunReadyDownload(g) ==
    /\ reqStatus[g] = "ready"
    /\ ~IsFinished(g)
    /\ IF files[g] = {}
       THEN \E o \in GetFilesOutcomes, part \in SUBSET NonExcluded(g) :
              /\ (o = "retry") = (part # {})
              /\ files' = [files EXCEPT ![g] = GetFilesFiles(g, o)]
              /\ msize' = [msize EXCEPT ![g] = GetFilesSize(g, o, part)]
              /\ reqSize' = IF o \in {"ok", "retry"}
                            THEN [reqSize EXCEPT ![g] = GetFilesSize(g, o, part)]
                            ELSE reqSize
              /\ reqStatus' = IF o = "nodir"
                              THEN [reqStatus EXCEPT ![g] = "finished"]
                              ELSE reqStatus
       ELSE UNCHANGED <<files, msize, reqSize, reqStatus>>
    /\ Download(g, files'[g])
    /\ Keep

\* status "finished" or "failed": dropped
RunTerminal(g) ==
    /\ reqStatus[g] \in {"finished", "failed"}
    /\ Drop(g)
    /\ reclass' = FALSE
    /\ capped' = FALSE
    /\ UNCHANGED <<reqStatus, reqSize, dl, attempts, files, msize,
                   downloaders, threads>>

\* one iteration of "for res in self.restores[:]"
RunRestore ==
    /\ up /\ queue # <<>>
    /\ LET g == Head(queue) IN
         /\ \/ RunWaiting(g)
            \/ RunReadyFinished(g)
            \/ RunReadyDownload(g)
            \/ RunTerminal(g)
         /\ valSize' = [valSize EXCEPT ![g] = reqSize[g]]
    /\ queue' = Tail(queue)
    /\ asked' = NotAsked
    /\ UNCHANGED <<reqRows, local, up, prior, recov, crashes, faults, pool, fate,
                   jobvars, libVars>>

(* ---------------------------- downloader.run -------------------------- *)
SetThread(t, pc, st) == (threads \ {t}) \cup {[t EXCEPT !.pc = pc, !.status = st]}

\* the ways the connection loop and open() can end for file f: the session
\* is set up and the file opened ("ok"), open() raises ("openfail"), the
\* login or cwd answer is not the expected text and open() then succeeds
\* ("reject") or raises ("rejectopenfail"), or a call of the loop raises
\* ("transient")
ConnectOutcomes(f) ==
    (IF fate[f] = "ok" THEN {"ok"} ELSE {"ok", "openfail"})
    \cup (IF "reject" \in faults THEN {"reject", "rejectopenfail"} ELSE {})
    \cup (IF "transient" \in faults THEN {"transient"} ELSE {})

\* the status of the worker after the loop and open(): "self.status = 'New'"
\* after a successful open() replaces the 'failed' of a rejected login or cwd
AfterOpen(o) == IF o \in {"ok", "reject"} THEN "New" ELSE "failed"

\* faulty variant: the exception of the connection loop ends the worker
AfterConnectErrorFailed(t) ==
    [t EXCEPT !.tries = @ + 1, !.pc = "dead", !.status = "failed"]

\* "except Exception, e: .. time.sleep(1)": the loop starts again
AfterConnectError(t) == [t EXCEPT !.tries = @ + 1]

TransferOutcomes(f) ==
    CASE fate[f] = "ok" -> {"ok"}
      [] fate[f] = "fail" -> {"fail"}
      [] OTHER -> {"ok", "short", "fail"}

\* one round of the connection loop and, when the loop is left, open(): the
\* destination file is opened for writing (truncated) or open() fails;
\* "if self.status == 'failed': return" ends the worker
WorkerConnect ==
    /\ up
    /\ \E t \in threads : \E o \in ConnectOutcomes(t.f) :
         /\ t.pc = "conn"
         /\ IF o = "transient"
            THEN /\ t.tries < MaxConnTries
                 /\ threads' = (threads \ {t}) \cup {AfterConnectError(t)}
                 /\ UNCHANGED local
            ELSE /\ threads' = (threads \ {t}) \cup
                        {[t EXCEPT !.pc = IF AfterOpen(o) = "failed" THEN "dead" ELSE "xfer",
                                   !.status = AfterOpen(o),
                                   !.rej = o \in {"reject", "rejectopenfail"}]}
                 /\ local' = IF o \in {"ok", "reject"}
                             THEN [local EXCEPT ![t.f] = 0] ELSE local
    /\ asked' = NotAsked
    /\ UNCHANGED <<reqRows, reqStatus, reqSize, dl, attempts, up, restores,
                   queue, valSize, files, msize, downloaders, dlHist, jobvars, libVars>>

\* the transfer: it completes with all bytes written, completes with a
\* local file of another size, or raises
WorkerTransfer ==
    /\ up
    /\ \E t \in threads : \E o \in TransferOutcomes(t.f) :
         /\ t.pc = "xfer"
         /\ threads' = SetThread(t, "dead", IF o = "fail" THEN "failed" ELSE "downloaded")
         /\ local' = [local EXCEPT ![t.f] = IF o = "ok" THEN FileSize(t.f) ELSE 0]
    /\ asked' = NotAsked
    /\ UNCHANGED <<reqRows, reqStatus, reqSize, dl, attempts, up, restores,
                   queue, valSize, files, msize, downloaders, dlHist, jobvars, libVars>>

(* --------------------------- crash and restart ------------------------ *)
MemoryLost ==
    /\ restores' = <<>>
    /\ queue' = <<>>
    /\ valSize' = [g \in GUIDs |-> NULL]
    /\ files' = [g \in GUIDs |-> {}]
    /\ msize' = [g \in GUIDs |-> 0]
    /\ downloaders' = [g \in GUIDs |-> [f \in Files |-> 0]]
    /\ threads' = {}

\* the process stops between two store operations
Crash ==
    /\ up /\ crashes < MaxCrashes
    /\ crashes' = crashes + 1
    /\ up' = FALSE
    /\ prior' = Range(restores)
    /\ recov' = FALSE
    /\ reclass' = FALSE
    /\ capped' = FALSE
    /\ MemoryLost
    /\ asked' = NotAsked
    /\ UNCHANGED <<dlStore, dropped, faults, pool, fate, jobvars, libVars>>

\* faulty variant: only the requests still waiting are reloaded
UnfinishedWaiting(st) == st = "waiting"

\* the process stops inside request(), after the INSERT of the new row and
\* before the restore is appended to the working set
CrashInRequest ==
    /\ up /\ queue = <<>> /\ crashes < MaxCrashes
    /\ CanRequestMore
    /\ \E resp \in pool :
         /\ RequestInserts(resp)
         /\ reqRows' = Append(reqRows, resp)
         /\ reqStatus' = [reqStatus EXCEPT ![resp] = "waiting"]
    /\ crashes' = crashes + 1
    /\ up' = FALSE
    /\ prior' = Range(restores)
    /\ recov' = FALSE
    /\ reclass' = FALSE
    /\ capped' = FALSE
    /\ MemoryLost
    /\ asked' = NotAsked
    /\ UNCHANGED <<reqSize, dl, attempts, local, dropped, faults, pool, fate, jobvars, libVars>>

\* the process stops inside create_dl_entries, called by download() for the
\* ready restore that is being run: get_files() has listed the directory if
\* the file dict was empty, and the rows of some files, not of all, are
\* inserted
CrashInCreate ==
    /\ up /\ queue # <<>> /\ crashes < MaxCrashes
    /\ LET g == Head(queue)
           fl == IF files[g] = {} THEN GetFilesFiles(g, "ok") ELSE files[g]
       IN /\ reqStatus[g] = "ready"
          /\ ~IsFinished(g)
          /\ NoDownloaders(g) /\ RowsOf(g) = {}
          /\ reqSize' = IF files[g] = {}
                        THEN [reqSize EXCEPT ![g] = GetFilesSize(g, "ok", {})]
                        ELSE reqSize
          /\ \E done \in SUBSET fl :
               /\ done # {} /\ done # fl
               /\ dl' = [dl EXCEPT ![g] = Created(g, done)]
    /\ crashes' = crashes + 1
    /\ up' = FALSE
    /\ prior' = Range(restores)
    /\ recov' = FALSE
    /\ reclass' = FALSE
    /\ capped' = FALSE
    /\ MemoryLost
    /\ asked' = NotAsked
    /\ UNCHANGED <<reqRows, reqStatus, attempts, local, dropped, faults, pool, fate,
                   jobvars, libVars>>

\* SELECT * FROM requests WHERE status NOT LIKE 'finished'
Unfinished(st) == st # "none" /\ ~Like(st, "finished")

\* DownloadModule.__init__: recover() appends one restore per unfinished
\* row; restore.__init__ loads the row (update_from_db)
Recover ==
    /\ ~up
    /\ up' = TRUE
    /\ restores' = SelectSeq(reqRows, LAMBDA g : Unfinished(reqStatus[g]))
    /\ valSize' = [g \in GUIDs |-> IF Unfinished(reqStatus[g]) THEN reqSize[g] ELSE NULL]
    /\ recov' = TRUE
    /\ asked' = NotAsked
    /\ UNCHANGED <<dlStore, queue, files, msize, downloaders, threads,
                   prior, dropped, reclass, capped, crashes, faults, pool, fate,
                   jobvars, libVars>>

(* ====================================================================== *)
(* The job lifecycle manager (src/job.py)                                 *)
(* ====================================================================== *)
Jobs == {1, 2}
\* the first datafile of a job, from which its name and log file derive
JobFile(j) == IF j = 1 THEN "d1.fits" ELSE "d2.fits"

\* str.lower() on the status texts that occur in the logs
Lower(st) ==
    CASE st = "New job" -> "new job"
      [] st = "Submitted to queue" -> "submitted to queue"
      [] st = "Deleted" -> "deleted"
      [] OTHER -> st

\* the log files found when the manager is first started: none, or the
\* history of a job written by earlier runs and by the compute hosts
InitLogs ==
    { <<>>,
      <<"New job">>,
      <<"New job", "Submitted to queue">>,
      <<"New job", "Submitted to queue", "processing in progress">>,
      <<"New job", "processing failed">>,
      <<"New job", "processing failed", "processing failed">>,
      <<"New job", "processing successful">>,
      <<"New job", "processing successful", "upload successful">>,
      <<"New job", "no such status">> }

\* create_jobs_from_datafiles: one job per datafile, PulsarSearchJob([datafile])
JobDatafiles == [j \in Jobs |-> <<JobFile(j)>>]

JobMemEmpty ==
    /\ jpc = "down"
    /\ jobs = <<>>
    /\ logentries = [j \in Jobs |-> <<>>]
    /\ idx = 1
    /\ cansubmit = FALSE
    /\ nsub = 0
    /\ subs = [j \in Jobs |-> 0]
    /\ sublen = [j \in Jobs |-> 0]
    /\ err = ""
    /\ notified = ""
    /\ pbsQ = [j \in Jobs |-> 0]
    /\ pbsR = [j \in Jobs |-> 0]

InitJob ==
    /\ jfiles = JobDatafiles
    /\ disk = UNION {Range(jfiles[j]) : j \in Jobs}
    /\ logfile \in [Jobs -> InitLogs]
    /\ deleteRaw \in BOOLEAN
    /\ maxAttempts \in 1..MaxAttempts
    /\ foreignQ \in {0, 1}
    /\ JobMemEmpty

\* the job manager is absent from the behaviours of the downloader
JobIdle ==
    /\ jfiles = [j \in Jobs |-> <<>>]
    /\ disk = {}
    /\ logfile = [j \in Jobs |-> <<>>]
    /\ deleteRaw = FALSE
    /\ maxAttempts = 1
    /\ foreignQ = 0
    /\ JobMemEmpty

\* the downloader is absent from the behaviours of the job manager
DLIdle ==
    DLEmpty({}) /\ pool = {} /\ fate = AnyFate({}) /\ up = FALSE /\ faults = {}

Last(sq) == sq[Len(sq)]

\* PulsarSearchJob.get_status: the status of the last entry held in memory
GetStatus(j) == Last(logentries[j])

\* PulsarSearchJob.count_status
CountStatus(j, st) ==
    Cardinality({i \in 1..Len(logentries[j]) : Lower(logentries[j][i]) = Lower(st)})

\* JobPool.get_queue_status: numqueued over the jobs named after the pipeline
NumQueued == SumOver(Jobs, pbsQ)

\* numrunning of get_queue_status
NumRunning == SumOver(Jobs, pbsR)

\* faulty variant: the two counts are taken in the other order
CanSubmitSwapped(numrunning, numqueued) == numrunning = 0

\* "cansubmit = (numqueued == 0)"
CanSubmit(numrunning, numqueued) == numqueued = 0

(* JobPool.__init__: get_datafiles, then one PulsarSearchJob per datafile;  *)
(* JobLog.__init__ reads the log file if it exists and otherwise writes a   *)
(* "New job" entry and keeps it in memory.                                  *)
TrackedAtStart == {j \in Jobs : JobFile(j) \in disk}

RECURSIVE SeqOfSet(_)
SeqOfSet(S) ==
    IF S = {} THEN <<>>
    ELSE LET m == CHOOSE x \in S : \A y \in S : x <= y
         IN <<m>> \o SeqOfSet(S \ {m})

\* faulty variant: the job is always built afresh
JobLogInitFresh(j) == <<"New job">>

JobLogInit(j) == IF logfile[j] # <<>> THEN logfile[j] ELSE <<"New job">>

JStart ==
    /\ jpc = "down"
    /\ jobs' = SeqOfSet(TrackedAtStart)
    /\ logentries' = [j \in Jobs |-> IF j \in TrackedAtStart THEN JobLogInit(j) ELSE <<>>]
    /\ logfile' = [j \in Jobs |-> IF j \in TrackedAtStart THEN JobLogInit(j) ELSE logfile[j]]
    /\ jpc' = "idle"
    /\ idx' = 1
    /\ cansubmit' = FALSE
    /\ nsub' = 0
    /\ err' = ""
    /\ notified' = ""
    /\ UNCHANGED <<jfiles, disk, deleteRaw, maxAttempts, foreignQ, pbsQ, pbsR, subs, sublen, dlVars, libVars>>

(* ------------------------------ JobPool.rotate ------------------------ *)
\* the top of rotate: a job can be submitted if none is queued
RotateStart ==
    /\ jpc = "idle" /\ jobs # <<>>
    /\ cansubmit' = CanSubmit(NumRunning, NumQueued)
    /\ idx' = 1
    /\ nsub' = 0
    /\ jpc' = "pass"
    /\ UNCHANGED <<jobStore, jobs, logentries, subs, sublen, err, notified, dlVars, libVars>>

\* the loop goes on to the next job, or rotate returns
Continue ==
    /\ idx' = idx + 1
    /\ jpc' = IF idx + 1 > Len(jobs) THEN "idle" ELSE "pass"
    /\ err' = err
    /\ notified' = notified

\* faulty variant: the exception is re-raised without the notification
HandlerSilent(e) ==
    /\ notified' = notified
    /\ jpc' = "down"
    /\ err' = e

\* "except Exception, e:" of the driver loop: the message is built, the
\* notifier is invoked and returns or raises, and the exception is
\* re-raised (or that of the notifier leaves main): the process ends
Handler(e) ==
    /\ notified' \in {"sent", "failed"}
    /\ jpc' = "down"
    /\ err' = e

\* an exception leaves rotate and reaches the handler of the driver
Raise(e) ==
    /\ idx' = idx
    /\ Handler(e)

\* faulty variant: the error of submit_job is caught inside the loop, which goes on
\* without clearing cansubmit
SubmitStepSwallow(j) ==
    IF cansubmit
    THEN /\ SumOver(Jobs, subs) < MaxSubmits
         /\ pbsQ' = [pbsQ EXCEPT ![j] = @ + 1]
         /\ subs' = [subs EXCEPT ![j] = @ + 1]
         /\ sublen' = [sublen EXCEPT ![j] = Len(logfile[j])]
         /\ nsub' = nsub + 1
         /\ Continue
         /\ UNCHANGED <<cansubmit, logfile, logentries>>
    ELSE /\ Continue
         /\ UNCHANGED <<pbsQ, subs, sublen, nsub, cansubmit, logfile, logentries>>

\* "if cansubmit: self.submit_job(job); cansubmit = False". submit_job runs
\* qsub and then evaluates job.LogEntry, which PulsarSearchJob does not
\* have: AttributeError, before any log entry is written
SubmitStep(j) ==
    IF cansubmit
    THEN /\ SumOver(Jobs, subs) < MaxSubmits
         /\ pbsQ' = [pbsQ EXCEPT ![j] = @ + 1]
         /\ subs' = [subs EXCEPT ![j] = @ + 1]
         /\ sublen' = [sublen EXCEPT ![j] = Len(logfile[j])]
         /\ nsub' = nsub + 1
         /\ Raise("AttributeError")
         /\ UNCHANGED <<cansubmit, logfile, logentries>>
    ELSE /\ Continue
         /\ UNCHANGED <<pbsQ, subs, sublen, nsub, cansubmit, logfile, logentries>>

\* faulty variant: the datafiles are removed without the demand check
DeleteJobUnchecked(j) ==
    /\ disk' = disk \ Range(jfiles[j])
    /\ Continue

\* faulty variant: the datafiles are removed before the demand is looked up
DeleteJobRemovingFirst(j) ==
    IF deleteRaw
    THEN disk' = disk \ Range(jfiles[j]) /\ Raise("NameError")
    ELSE Continue /\ UNCHANGED disk

\* delete_job: with config.delete_rawdata set, "is_in_demand(j)" is evaluated
\* first; neither name is defined in that scope: NameError. Otherwise nothing
DeleteJob(j) ==
    /\ IF deleteRaw THEN Raise("NameError") ELSE Continue
    /\ UNCHANGED disk

VisitInQueue(j) ==
    /\ Lower(GetStatus(j)) \in {"submitted to queue", "processing in progress"}
    /\ Continue
    /\ UNCHANGED <<disk, pbsQ, subs, sublen, nsub, cansubmit, logfile, logentries>>

\* "processing failed": count_status, then "numfails < max_attempts" with
\* max_attempts not defined in job.py: NameError
VisitFailed(j) ==
    /\ Lower(GetStatus(j)) = "processing failed"
    /\ Raise("NameError")
    /\ UNCHANGED <<disk, pbsQ, subs, sublen, nsub, cansubmit, logfile, logentries>>

\* faulty variant: the job's datafiles are removed once it is processed
VisitSuccessfulDeleting(j) ==
    /\ Lower(GetStatus(j)) = "processing successful"
    /\ disk' = disk \ Range(jfiles[j])
    /\ Continue
    /\ UNCHANGED <<pbsQ, subs, sublen, nsub, cansubmit, logfile, logentries>>

\* "processing successful": upload_results raises NotImplementedError
VisitSuccessful(j) ==
    /\ Lower(GetStatus(j)) = "processing successful"
    /\ Raise("NotImplementedError")
    /\ UNCHANGED <<disk, pbsQ, subs, sublen, nsub, cansubmit, logfile, logentries>>

VisitNew(j) ==
    /\ Lower(GetStatus(j)) = "new job"
    /\ SubmitStep(j)
    /\ UNCHANGED disk

VisitUploaded(j) ==
    /\ Lower(GetStatus(j)) = "upload successful"
    /\ DeleteJob(j)
    /\ UNCHANGED <<pbsQ, subs, sublen, nsub, cansubmit, logfile, logentries>>

Recognized ==
    {"submitted to queue", "processing in progress", "processing failed",
     "processing successful", "new job", "upload successful"}

\* faulty variant: the unrecognized status is passed over
VisitUnknownIgnored(j) ==
    /\ Lower(GetStatus(j)) \notin Recognized
    /\ Continue
    /\ UNCHANGED <<disk, pbsQ, subs, sublen, nsub, cansubmit, logfile, logentries>>

VisitUnknown(j) ==
    /\ Lower(GetStatus(j)) \notin Recognized
    /\ Raise("ValueError")
    /\ UNCHANGED <<disk, pbsQ, subs, sublen, nsub, cansubmit, logfile, logentries>>

\* one iteration of "for job in self.jobs"
Visit ==
    /\ jpc = "pass" /\ idx <= Len(jobs)
    /\ LET j == jobs[idx] IN
         \/ VisitInQueue(j)
         \/ VisitFailed(j)
         \/ VisitSuccessful(j)
         \/ VisitNew(j)
         \/ VisitUploaded(j)
         \/ VisitUnknown(j)
    /\ UNCHANGED <<jfiles, deleteRaw, maxAttempts, foreignQ, pbsR, jobs, dlVars, libVars>>

(* ------------- the batch queue, the compute hosts, the uploader ------- *)
\* a queued job starts and reports it in the job's log file
QueueRun ==
    \E j \in Jobs :
      /\ pbsQ[j] > 0
      /\ pbsQ' = [pbsQ EXCEPT ![j] = @ - 1]
      /\ pbsR' = [pbsR EXCEPT ![j] = @ + 1]
      /\ logfile' = [logfile EXCEPT ![j] = Append(@, "processing in progress")]
      /\ UNCHANGED <<jfiles, disk, deleteRaw, maxAttempts, foreignQ, jobMem, jobHist, dlVars, libVars>>

\* a running job ends and reports its result in the job's log file
QueueDone ==
    \E j \in Jobs, res \in {"processing successful", "processing failed"} :
      /\ pbsR[j] > 0
      /\ pbsR' = [pbsR EXCEPT ![j] = @ - 1]
      /\ logfile' = [logfile EXCEPT ![j] = Append(@, res)]
      /\ UNCHANGED <<jfiles, disk, deleteRaw, maxAttempts, foreignQ, pbsQ, jobMem, jobHist, dlVars, libVars>>

\* the result uploader reports in the job's log file
Uploaded ==
    \E j \in Jobs :
      /\ logfile[j] # <<>> /\ Last(logfile[j]) = "processing successful"
      /\ logfile' = [logfile EXCEPT ![j] = Append(@, "upload successful")]
      /\ UNCHANGED <<jfiles, disk, deleteRaw, maxAttempts, foreignQ, pbsQ, pbsR, jobMem, jobHist, dlVars, libVars>>

NextJob ==
    \/ JStart
    \/ RotateStart
    \/ Visit
    \/ QueueRun
    \/ QueueDone
    \/ Uploaded

NextDL ==
    \/ TickStart
    \/ RunRestore
    \/ WorkerConnect
    \/ WorkerTransfer
    \/ Crash
    \/ CrashInRequest
    \/ Recover


(* ====================================================================== *)
(* JobLog.read (src/job.py): the parse of one log file                    *)
(* ====================================================================== *)
\* number of lines of a log file
MaxLogLines == 3

\* a line is a sequence of pieces of text; Sep is the text " -- " of the
\* grammar, Hash the comment sign, Blank white space
Sep == " -- "
Hash == "#"
Blank == " "

GoodLine == <<"2020-01-01 00:00:00", Sep, "New job", Sep, "hostA", Sep, "Datafiles">>
FailLine == <<"2020-01-02 00:00:00", Sep, "processing failed", Sep, "hostA", Sep, "attempt 1">>

\* the lines a log file is made of
LogLines ==
    { GoodLine,
      FailLine,
      GoodLine \o <<Blank, Hash, "note">>,            \* comment after an entry
      <<Hash, "a comment", Sep, "x", Sep, "y", Sep, "z">>, \* comment line
      <<Blank, Hash, "indented comment">>,
      <<>>,                                           \* empty line
      <<Blank, Blank>>,                               \* white space only
      <<"2020-01-03 00:00:00", Sep, "New job", Sep, "hostA">>,   \* three fields
      <<"garbage">>,
      <<"2020-01-04 00:00:00", Sep, "New job", Hash, Sep, "hostA", Sep, "x">>,
      <<"2020", Sep, "01", Sep, "New job", Sep, "hostA", Sep, "five fields">> }

RECURSIVE SeqsUpTo(_, _)
SeqsUpTo(S, n) ==
    IF n = 0 THEN {<<>>}
    ELSE LET shorter == SeqsUpTo(S, n - 1)
         IN shorter \cup {Append(sq, x) : sq \in {t \in shorter : Len(t) = n - 1}, x \in S}

\* line.partition("#")[0]: the text before the first comment sign
StripComment(line) ==
    IF \E i \in 1..Len(line) : line[i] = Hash
    THEN SubSeq(line, 1, (CHOOSE i \in 1..Len(line) :
                            line[i] = Hash /\ \A k \in 1..(i-1) : line[k] # Hash) - 1)
    ELSE line

\* "if line.strip()": lines of white space only are removed
IsBlankLine(line) == \A i \in 1..Len(line) : line[i] = Blank

SepsOf(line) == {i \in 1..Len(line) : line[i] = Sep}

\* logfmt_re.match(line): "^(.*) -- (.*) -- (.*) -- (.*)$"
MatchesFormat(line) == Cardinality(SepsOf(line)) >= 3

\* the i-th largest element of a set of positions
RECURSIVE NthLargest(_, _)
NthLargest(S, n) ==
    LET m == CHOOSE x \in S : \A y \in S : y <= x
    IN IF n = 1 THEN m ELSE NthLargest(S \ {m}, n - 1)

\* parse_logline: the groups of the match; the first groups are greedy, so
\* the last three separators delimit the fields
ParseLogline(line) ==
    LET p1 == NthLargest(SepsOf(line), 3)
        p2 == NthLargest(SepsOf(line), 2)
        p3 == NthLargest(SepsOf(line), 1)
    IN [date   |-> SubSeq(line, 1, p1 - 1),
        status |-> SubSeq(line, p1 + 1, p2 - 1),
        host   |-> SubSeq(line, p2 + 1, p3 - 1),
        info   |-> SubSeq(line, p3 + 1, Len(line))]

\* the lines that are left after the comments and the empty lines are removed
KeptLines(log) ==
    SelectSeq([i \in 1..Len(log) |-> StripComment(log[i])],
              LAMBDA l : ~IsBlankLine(l))

\* faulty variant: the lines that do not match are passed over
ReadSkippingBad(log) ==
    LET good == SelectSeq(KeptLines(log), LAMBDA l : MatchesFormat(l))
    IN [err |-> "", entries |-> [i \in 1..Len(good) |-> ParseLogline(good[i])]]

\* JobLog.read
Read(log) ==
    LET lines == KeptLines(log)
    IN IF \E i \in 1..Len(lines) : ~MatchesFormat(lines[i])
       THEN [err |-> "ValueError", entries |-> <<>>]
       ELSE [err |-> "", entries |-> [i \in 1..Len(lines) |-> ParseLogline(lines[i])]]

RdIdle == rawlog = <<>> /\ rdpc = "done" /\ rdentries = <<>> /\ rderr = ""


InitRead ==
    /\ rawlog \in SeqsUpTo(LogLines, MaxLogLines)
    /\ rdpc = "start" /\ rdentries = <<>> /\ rderr = ""

\* "self.logentries = self.read()" in JobLog.__init__
ReadLog ==
    /\ rdpc = "start"
    /\ rdentries' = Read(rawlog).entries
    /\ rderr' = Read(rawlog).err
    /\ rdpc' = "done"
    /\ UNCHANGED <<rawlog, dlVars, jobvars, qVars, cVars>>

NextRead == ReadLog

(* ====================================================================== *)
(* jobtracker.query (src/lib/jobtracker.py): one call on a batch          *)
(* ====================================================================== *)
\* number of statements of a batch
MaxBatch == 3
\* number of OperationalErrors met in one call
MaxFailures == 3

Batches == SeqsUpTo({"dml", "select"}, MaxBatch)

NoEffects(b) == [i \in 1..Len(b) |-> 0]

QIdle ==
    /\ qbatch = <<>> /\ qpc = "returned" /\ qi = 1 /\ qconn = "undef"
    /\ qtx = <<>> /\ qdb = <<>> /\ qcount = 0 /\ qfails = <<0, 0>> /\ qerr = ""


InitQuery ==
    /\ qbatch \in Batches
    /\ qpc = "connect" /\ qi = 1 /\ qconn = "undef"
    /\ qtx = NoEffects(qbatch) /\ qdb = NoEffects(qbatch)
    /\ qcount = 0 /\ qfails = <<0, 0>> /\ qerr = ""

CanFail == qfails[1] + qfails[2] < MaxFailures

\* "if count > 59: print ..; count = 0", then "time.sleep(1); count += 1"
Counted(c) == (IF c > 59 THEN 0 ELSE c) + 1

\* faulty variant: the transaction is not rolled back and its connection is
\* used again for the next try
RetryKeepingTransaction ==
    /\ qconn' = qconn
    /\ qcount' = Counted(qcount)
    /\ qpc' = IF qbatch = <<>> THEN "commit" ELSE "exec"
    /\ qi' = 1
    /\ UNCHANGED <<qtx, qerr>>

\* the handler of sqlite3.OperationalError on an open connection: rollback,
\* close, sleep, and the while loop starts again with a new connection
RollbackAndRetry ==
    /\ qtx' = NoEffects(qbatch)
    /\ qconn' = "closed"
    /\ qcount' = Counted(qcount)
    /\ qpc' = "connect"
    /\ qi' = 1
    /\ UNCHANGED qerr

\* sqlite3.connect: the connection is opened; or it raises
\* OperationalError (the file cannot be opened), and the handler calls
\* rollback() on db_conn: NameError if it was never bound (caught), or
\* ProgrammingError on the closed connection of the last try (not caught)
QConnect ==
    /\ qpc = "connect"
    /\ \/ /\ qconn' = "open"
          /\ qtx' = NoEffects(qbatch)
          /\ qi' = 1
          /\ qpc' = IF qbatch = <<>> THEN "commit" ELSE "exec"
          /\ UNCHANGED <<qcount, qfails, qerr>>
       \/ /\ CanFail
          /\ qfails' = [qfails EXCEPT ![2] = @ + 1]
          /\ IF qconn = "undef"
             THEN /\ qcount' = Counted(qcount)
                  /\ UNCHANGED <<qpc, qerr>>
             ELSE /\ qpc' = "raised"
                  /\ qerr' = "ProgrammingError"
                  /\ UNCHANGED qcount
          /\ UNCHANGED <<qconn, qtx, qi>>
    /\ UNCHANGED <<qbatch, qdb, rdVars, cVars, dlVars, jobvars>>

\* faulty variant: every statement is committed as soon as it is executed
ExecutedAutocommit(i) ==
    /\ qdb' = [qdb EXCEPT ![i] = @ + (IF qbatch[i] = "dml" THEN 1 ELSE 0)]
    /\ UNCHANGED qtx

\* db_cur.execute(q) went well: the effect is held in the transaction
Executed(i) ==
    /\ qtx' = [qtx EXCEPT ![i] = @ + (IF qbatch[i] = "dml" THEN 1 ELSE 0)]
    /\ UNCHANGED qdb

\* "for q in queries: db_cur.execute(q)": the statement is executed, or the
\* database is locked (OperationalError), or the statement raises another
\* error of sqlite3, which leaves query() with the transaction uncommitted
QExec ==
    /\ qpc = "exec"
    /\ \/ /\ Executed(qi)
          /\ qi' = qi + 1
          /\ qpc' = IF qi = Len(qbatch) THEN "commit" ELSE "exec"
          /\ UNCHANGED <<qconn, qcount, qfails, qerr>>
       \/ /\ CanFail
          /\ qfails' = [qfails EXCEPT ![1] = @ + 1]
          /\ RollbackAndRetry
          /\ UNCHANGED qdb
       \/ /\ qpc' = "raised"
          /\ qerr' = "IntegrityError"
          /\ qtx' = NoEffects(qbatch)
          /\ UNCHANGED <<qi, qconn, qcount, qfails, qdb>>
    /\ UNCHANGED <<qbatch, rdVars, cVars, dlVars, jobvars>>

\* db_conn.commit(): the transaction is committed, the result taken and the
\* connection closed; or the database is locked
QCommit ==
    /\ qpc = "commit"
    /\ \/ /\ qdb' = [i \in 1..Len(qbatch) |-> qdb[i] + qtx[i]]
          /\ qtx' = NoEffects(qbatch)
          /\ qconn' = "closed"
          /\ qpc' = "returned"
          /\ UNCHANGED <<qi, qcount, qfails, qerr>>
       \/ /\ CanFail
          /\ qfails' = [qfails EXCEPT ![1] = @ + 1]
          /\ RollbackAndRetry
          /\ UNCHANGED qdb
    /\ UNCHANGED <<qbatch, rdVars, cVars, dlVars, jobvars>>

(* ====================================================================== *)
(* jobtracker.query called concurrently: every call opens its own         *)
(* connection to the one database file, whose locks order the calls       *)
(* ====================================================================== *)
\* number of statements of a call
MaxStmts == 2
\* number of "database is locked" errors in one behaviour
MaxBusy == 2

Callers == {1, 2}

\* the statements: SELECT of the row, UPDATE that adds one to it, UPDATE
\* that sets it to a fixed value
CStmts == {"read", "inc", "set"}
CBatches == SeqsUpTo(CStmts, MaxStmts) \ {<<>>}

Apply(k, x) ==
    CASE k = "inc" -> x + 1
      [] k = "set" -> 7
      [] OTHER -> x

CIdle ==
    /\ cbatch = [c \in Callers |-> <<>>]
    /\ cpc = [c \in Callers |-> "returned"]
    /\ ci = [c \in Callers |-> 1]
    /\ clock = [c \in Callers |-> "none"]
    /\ cpriv = [c \in Callers |-> NULL]
    /\ cres = [c \in Callers |-> NULL]
    /\ cdb = 0
    /\ cbusy = 0

LibIdle == RdIdle /\ QIdle /\ CIdle

InitConc ==
    /\ cbatch \in [Callers -> CBatches]
    /\ cpc = [c \in Callers |-> "exec"]
    /\ ci = [c \in Callers |-> 1]
    /\ clock = [c \in Callers |-> "none"]
    /\ cpriv = [c \in Callers |-> NULL]
    /\ cres = [c \in Callers |-> NULL]
    /\ cdb = 0
    /\ cbusy = 0

\* the value of the row as the connection of c sees it
View(c) == IF cpriv[c] # NULL THEN cpriv[c] ELSE cdb

\* the connection of c is inside a transaction that has written
InTransaction(c) == clock[c] = "reserved"

\* faulty variant: isolation_level None, every statement commits by itself
InTransactionAfterNever(k, was) == FALSE

\* isolation_level 'DEFERRED': a transaction is begun before the first
\* INSERT/UPDATE/DELETE of the connection and lasts until commit()
InTransactionAfter(k, was) == was \/ k # "read"

\* the handler of OperationalError: rollback, close, and the batch starts
\* again on a new connection
CRetry(c) ==
    /\ cbusy < MaxBusy
    /\ cbusy' = cbusy + 1
    /\ clock' = [clock EXCEPT ![c] = "none"]
    /\ cpriv' = [cpriv EXCEPT ![c] = NULL]
    /\ cres' = [cres EXCEPT ![c] = NULL]
    /\ ci' = [ci EXCEPT ![c] = 1]
    /\ cpc' = [cpc EXCEPT ![c] = "exec"]
    /\ UNCHANGED cdb

OtherHolds(c, lk) == \E d \in Callers \ {c} : clock[d] = lk

\* db_cur.execute(q) of caller c. A SELECT takes the shared lock and reads
\* the row as the connection sees it; outside a transaction the lock lasts
\* until the cursor is used again. An UPDATE needs the reserved lock, which
\* one connection at a time can hold; its value stays private until commit
CExec(c) ==
    /\ cpc[c] = "exec"
    /\ LET k == cbatch[c][ci[c]]
           was == InTransaction(c)
           intx == InTransactionAfter(k, was)
           advance == /\ ci' = [ci EXCEPT ![c] = @ + 1]
                      /\ cpc' = [cpc EXCEPT ![c] = IF ci[c] = Len(cbatch[c])
                                                   THEN "commit" ELSE "exec"]
                      /\ UNCHANGED cbusy
       IN IF k = "read"
          THEN \/ /\ cres' = [cres EXCEPT ![c] = View(c)]
                  /\ clock' = [clock EXCEPT ![c] = IF was THEN "reserved" ELSE "shared"]
                  /\ advance
                  /\ UNCHANGED <<cpriv, cdb>>
               \/ /\ ~was /\ OtherHolds(c, "reserved")
                  /\ CRetry(c)
          ELSE IF OtherHolds(c, "reserved") \/ (~intx /\ OtherHolds(c, "shared"))
               THEN CRetry(c)
               ELSE /\ cres' = [cres EXCEPT ![c] = NULL]
                    /\ IF intx
                       THEN /\ cpriv' = [cpriv EXCEPT ![c] = Apply(k, View(c))]
                            /\ clock' = [clock EXCEPT ![c] = "reserved"]
                            /\ UNCHANGED cdb
                       ELSE /\ cdb' = Apply(k, cdb)
                            /\ clock' = [clock EXCEPT ![c] = "none"]
                            /\ UNCHANGED cpriv
                    /\ advance
    /\ UNCHANGED <<cbatch, rdVars, qVars, dlVars, jobvars>>

\* db_conn.commit() of caller c, then the result is taken from the cursor
\* and the connection closed. A transaction that has written needs the
\* exclusive lock, which no reader of another connection allows
CCommit(c) ==
    /\ cpc[c] = "commit"
    /\ IF InTransaction(c) /\ OtherHolds(c, "shared")
       THEN CRetry(c)
       ELSE /\ cdb' = IF InTransaction(c) THEN cpriv[c] ELSE cdb
            /\ cpriv' = [cpriv EXCEPT ![c] = NULL]
            /\ clock' = [clock EXCEPT ![c] = "none"]
            /\ cpc' = [cpc EXCEPT ![c] = "returned"]
            /\ UNCHANGED <<ci, cres, cbusy>>
    /\ UNCHANGED <<cbatch, rdVars, qVars, dlVars, jobvars>>

NextConc ==
    \/ \E c \in Callers : CExec(c)
    \/ \E c \in Callers : CCommit(c)

\* two concurrent calls of query()
ConcInit == InitConc /\ RdIdle /\ QIdle /\ DLIdle /\ JobIdle
ConcSpec == ConcInit /\ [][NextConc]_vars

NextQuery ==
    \/ QConnect
    \/ QExec
    \/ QCommit

\* one call of query()
QueryInit == InitQuery /\ RdIdle /\ CIdle /\ DLIdle /\ JobIdle
QuerySpec == QueryInit /\ [][NextQuery]_vars

\* the read of a log file
ReadInit == InitRead /\ QIdle /\ CIdle /\ DLIdle /\ JobIdle
ReadSpec == ReadInit /\ [][NextRead]_vars

\* the download orchestrator, started on an empty store
Init == InitDL /\ JobIdle /\ LibIdle
Spec == Init /\ [][NextDL]_vars

\* the download orchestrator with a remote service that answers with more
\* guids than numrestores, and a listing that always succeeds
InitAdmit ==
    /\ DLEmpty({1, 2, 3}) /\ pool = {1, 2, 3} /\ fate = AnyFate({1, 2, 3})
    /\ up = TRUE /\ faults = {}
    /\ JobIdle /\ LibIdle
AdmitSpec == InitAdmit /\ [][NextDL]_vars

\* one restore of three files, two of which always transfer well while the
\* third always fails; the process does not crash, the loop keeps ticking
\* and every worker thread runs to its end
InitScenario ==
    /\ DLEmpty({4}) /\ pool = {4}
    /\ fate = [f \in ListedIn({4}) |-> IF f = File300 THEN "fail" ELSE "ok"]
    /\ up = TRUE /\ faults = {}
    /\ JobIdle /\ LibIdle

NextRun ==
    \/ TickStart
    \/ RunRestore
    \/ WorkerConnect
    \/ WorkerTransfer

ScenarioSpec ==
    /\ InitScenario /\ [][NextRun]_vars
    /\ WF_vars(TickStart) /\ WF_vars(RunRestore)
    /\ WF_vars(WorkerConnect) /\ WF_vars(WorkerTransfer)

\* the guid of the restore of two data files and an auxiliary file
FaultGuid == 5

\* one restore of two data files and an auxiliary file, with an FTP server
\* that can reject the login or the cwd of the listing and whose calls can
\* raise while the files are sized; the process can also stop while the
\* download rows are created; the transfers of the workers go well
InitFault ==
    /\ DLEmpty({FaultGuid}) /\ pool = {FaultGuid}
    /\ fate = [f \in ListedIn({FaultGuid}) |-> "ok"]
    /\ up = TRUE /\ faults = {"login", "nodir", "retry"}
    /\ JobIdle /\ LibIdle

NextFault ==
    \/ TickStart
    \/ RunRestore
    \/ WorkerConnect
    \/ WorkerTransfer
    \/ Crash
    \/ CrashInRequest
    \/ CrashInCreate
    \/ Recover

FaultSpec == InitFault /\ [][NextFault]_vars

\* the restore of two data files and an auxiliary file on a server without
\* faults; the transfers of one data file always fail, those of the other
\* go well. The process can crash (MaxCrashes times) and is started again;
\* the loop keeps ticking and every worker thread runs to its end
InitLive ==
    /\ DLEmpty({FaultGuid}) /\ pool = {FaultGuid}
    /\ fate = [f \in ListedIn({FaultGuid}) |-> IF f = File100 THEN "fail" ELSE "ok"]
    /\ up = TRUE /\ faults = {}
    /\ JobIdle /\ LibIdle

LiveSpec ==
    /\ InitLive /\ [][NextDL]_vars
    /\ WF_vars(TickStart) /\ WF_vars(RunRestore)
    /\ WF_vars(WorkerConnect) /\ WF_vars(WorkerTransfer)
    /\ WF_vars(Recover)

\* the guid of the restore of one data file
WorkerGuid == 2

\* one restore of one data file, with an FTP server that can reject the
\* login or the cwd of a download worker and whose calls can raise in the
\* connection loop of the worker
InitWorker ==
    /\ DLEmpty({WorkerGuid}) /\ pool = {WorkerGuid} /\ fate = AnyFate({WorkerGuid})
    /\ up = TRUE /\ faults = {"reject", "transient"}
    /\ JobIdle /\ LibIdle

WorkerSpec == InitWorker /\ [][NextDL]_vars

\* the job lifecycle manager, started on the log files of earlier runs
JobInit == InitJob /\ DLIdle /\ LibIdle
JobSpec == JobInit /\ [][NextJob]_vars

(* ====================================================================== *)
(* Properties of the download orchestrator                                *)
(* ====================================================================== *)
\* the forward order of the request statuses
Forward(a, b) ==
    \/ a = b
    \/ a = "none" /\ b = "waiting"
    \/ a = "waiting" /\ b = "ready"
    \/ a = "ready" /\ b \in {"finished", "failed"}

\* C1: over poll ticks, crashes and restarts the persisted status of every
\* Request only moves forward along waiting -> ready -> {finished, failed}:
\* it never goes back, never leaves a terminal status and never goes from
\* waiting directly to a terminal status.
C1_StatusMonotonic ==
    [][\A g \in GUIDs : Forward(reqStatus[g], reqStatus'[g])]_vars

\* a Request that went through all statuses in a behaviour with a crash
C1_Witness ==
    \E g \in GUIDs : reqStatus[g] = "finished" /\ g \in dropped /\ crashes > 0

\* C2: every Download has at most numretries Attempt rows, and an Attempt
\* row is added only to a Download that has fewer than numretries of them.
C2_RetryBound ==
    /\ [](\A g \in GUIDs, f \in Files : Len(attempts[g][f]) <= NumRetries)
    /\ [][\A g \in GUIDs, f \in Files :
            Len(attempts'[g][f]) # Len(attempts[g][f])
            => /\ Len(attempts[g][f]) < NumRetries
               /\ Len(attempts'[g][f]) = Len(attempts[g][f]) + 1]_vars

\* download() has just passed over a Download that has used its numretries
\* attempts and has no worker: no Attempt row and no worker were added
C2_Witness ==
    /\ capped
    /\ \E g \in GUIDs, f \in Files :
        /\ Len(attempts[g][f]) = NumRetries
        /\ g \in Range(restores)
        /\ downloaders[g][f] = 0

\* the worker of file f of restore g is reconciled and removed in this step
Removed(g, f) == downloaders[g][f] # 0 /\ downloaders'[g][f] = 0 /\ up'
WorkerOf(g, f) ==
    CHOOSE t \in threads : t.g = g /\ t.f = f /\ t.n = downloaders[g][f]

\* C3: a Download or Attempt becomes 'downloaded' only in a step in which
\* the local file exists with the Download's expected size; a terminated
\* worker that reports 'downloaded' with another size leaves the Download and
\* its Attempt 'failed', and the reconciliation adds no Attempt row.
C3_SizeChecked ==
    [][\A g \in GUIDs, f \in Files :
        /\ (dl[g][f].status # "downloaded" /\ dl'[g][f].status = "downloaded")
           => (local[f] # NULL /\ local[f] = dl'[g][f].size)
        /\ \A n \in 1..Len(attempts[g][f]) :
             (attempts[g][f][n] # "downloaded" /\ attempts'[g][f][n] = "downloaded")
             => (local[f] # NULL /\ local[f] = dl[g][f].size)
        /\ (/\ Removed(g, f)
            /\ WorkerOf(g, f).status = "downloaded"
            /\ ~(local[f] # NULL /\ local[f] = dl[g][f].size))
           => /\ dl'[g][f].status = "failed"
              /\ attempts'[g][f][downloaders[g][f]] = "failed"
              /\ Len(attempts'[g][f]) = Len(attempts[g][f])]_vars

\* a worker's 'downloaded' has just been reclassified: row and Attempt failed
C3_Witness ==
    /\ reclass
    /\ \E g \in GUIDs, f \in Files :
         /\ dl[g][f].status = "failed"
         /\ Len(attempts[g][f]) > 0
         /\ attempts[g][f][Len(attempts[g][f])] = "failed"
         /\ local[f] # dl[g][f].size

\* the completion rule as stated: all downloaded, or nothing downloading
\* and every failed Download out of retries
CompletionRule(g) ==
    \/ \A f \in RowsOf(g) : dl[g][f].status = "downloaded"
    \/ /\ \A f \in RowsOf(g) : dl[g][f].status # "downloading"
       /\ \A f \in RowsOf(g) : dl[g][f].status = "failed"
                               => Len(attempts[g][f]) >= NumRetries

\* completion evaluation marks g finished in this step (and drops it)
MarkedFinished(g) ==
    /\ reqStatus[g] = "ready" /\ reqStatus'[g] = "finished"
    /\ g \in Range(restores) /\ g \notin Range(restores')

\* C4: completion evaluation marks a ready Request finished only when the
\* completion rule holds, never while a failed Download has retries left.
C4_FinishedOnlyWhenComplete ==
    [][\A g \in GUIDs : MarkedFinished(g) => CompletionRule(g)]_vars

LiveWorkers(g, f) == {t \in threads : t.g = g /\ t.f = f /\ t.pc # "dead"}

\* C5: at most one live worker per (Request, remote_filename); an entry
\* leaves the worker map only when its thread has terminated.
C5_OneLiveWorker ==
    /\ [](\A g \in GUIDs, f \in Files : Cardinality(LiveWorkers(g, f)) <= 1)
    /\ [][\A g \in GUIDs, f \in Files :
            Removed(g, f) => WorkerOf(g, f).pc = "dead"]_vars

\* a live worker of a second or later Attempt, started by the same process
\* that reconciled the earlier one
C5_Witness ==
    \E t \in threads : t.pc # "dead" /\ t.n >= 2 /\ crashes = 0

\* C10 as stated: the recovered working set is exactly the working set the
\* prior run had when it stopped.
C10_SameWorkingSet == recov => Range(restores) = prior

\* C10, amended: recover() reloads every Request of the prior working set
\* that is not marked finished, none that the prior run had dropped, and
\* beyond those only a Request that request() had just persisted; each once.
C10_Recovered ==
    recov =>
      /\ {g \in prior : reqStatus[g] # "finished"} \subseteq Range(restores)
      /\ Range(restores) \cap dropped = {}
      /\ \A g \in Range(restores) \ prior : reqStatus[g] = "waiting"
      /\ \A g \in Range(restores) : reqStatus[g] # "finished"
      /\ Cardinality(Range(restores)) = Len(restores)

\* a restart that reloads a ready Request while the prior run had dropped
\* another one
C10_Witness ==
    /\ recov
    /\ \E g \in Range(restores) : reqStatus[g] = "ready" /\ g \in prior
    /\ dropped # {}

(* ------------------------------ admission ----------------------------- *)
\* a step in which the running orchestrator takes a new restore into its
\* working set (the request of TickStart was accepted)
Admitted == up /\ up' /\ Len(restores') > Len(restores)

\* C11: the working set never holds more than numrestores Requests, also
\* after recover(), and a restore is requested only when it holds fewer
C11_WorkingSetBound ==
    /\ [](Len(restores) <= NumRestores)
    /\ [][Admitted => Len(restores) < NumRestores]_vars

\* after a restart, a tick has just left a full working set of ready
\* Requests as it was, although space is left and a guid is to be had
C11_Witness ==
    /\ up /\ crashes > 0
    /\ Len(restores) = NumRestores /\ queue = restores
    /\ \A g \in Range(restores) : reqStatus[g] = "ready"
    /\ GetAvailableSpace - TotalSize > 0
    /\ \E g \in pool : reqStatus[g] = "none"

\* the sizes persisted in the requests table for the working set
StoredSize ==
    SumOver({g \in Range(restores) : reqSize[g] # NULL /\ reqSize[g] # 0}, reqSize)

RecoveredSet == SelectSeq(reqRows, LAMBDA g : Unfinished(reqStatus[g]))

DecisionFromStore ==
    IF Len(RecoveredSet) >= NumRestores THEN FALSE
    ELSE (GetAvailableSpace
          - SumOver({g \in Range(RecoveredSet) : reqSize[g] # NULL /\ reqSize[g] # 0},
                    reqSize)) > 0

\* C13: between two ticks the running orchestrator takes the decision that
\* an orchestrator restarted on the same store takes
C13_DecisionFromStoreAlone ==
    (up /\ queue = <<>>) => (CanRequestMore = DecisionFromStore)

(* ------------------ the scenario of three files ----------------------- *)
\* the guid of the scenario's restore
ScenarioGuid == 4

ScenarioReady == reqStatus[ScenarioGuid] = "ready"
ScenarioFinished == reqStatus[ScenarioGuid] = "finished"

\* the two sound files are downloaded with local files of the listed sizes
\* (100 and 200), the third (300) is failed
ScenarioOutcome ==
    /\ \A f \in {File100, File200} :
          /\ dl[ScenarioGuid][f].status = "downloaded"
          /\ local[f] = dl[ScenarioGuid][f].size
          /\ local[f] = FileSize(f)
    /\ dl[ScenarioGuid][File300].status = "failed"

\* C14: the ready Request of three files, two of which download well and one
\* of which fails at every attempt, ends 'finished' with that outcome; it is
\* never 'failed' and does not stay ready for ever
C14_ScenarioEndsFinished ==
    /\ ScenarioReady ~> ScenarioFinished
    /\ [](ScenarioFinished => ScenarioOutcome)
    /\ [](reqStatus[ScenarioGuid] # "failed")

\* the Request is finished after the third file has failed numretries times
C14_Witness ==
    /\ ScenarioFinished /\ ScenarioOutcome
    /\ Len(attempts[ScenarioGuid][File300]) = NumRetries
    /\ \A i \in 1..NumRetries : attempts[ScenarioGuid][File300][i] = "failed"
    /\ ScenarioGuid \notin Range(restores)

(* -------------------- downloads still in progress --------------------- *)
HasDownloading(g) == \E f \in RowsOf(g) : dl[g][f].status = "downloading"

\* a step of the running orchestrator that closes the Request
SetTerminal(g) ==
    reqStatus'[g] \in {"finished", "failed"} /\ reqStatus'[g] # reqStatus[g]

DroppedFromSet(g) ==
    up /\ up' /\ g \in Range(restores) /\ g \notin Range(restores')

\* C15 as stated: while a Download of a Request is 'downloading', no step
\* sets the Request to 'finished' or 'failed' or drops it
C15_DownloadingBlocks ==
    [][\A g \in GUIDs :
         HasDownloading(g) => ~SetTerminal(g) /\ ~DroppedFromSet(g)]_vars

\* C15: while a Download of a Request is 'downloading', the Request is set
\* to 'finished' only by get_files (ready, file dict empty), never to
\* 'failed', and it is dropped only if it was marked finished before
C15_DownloadingBlocksCompletion ==
    [][\A g \in GUIDs :
         HasDownloading(g)
           => /\ SetTerminal(g) => /\ reqStatus'[g] = "finished"
                                   /\ reqStatus[g] = "ready"
                                   /\ files[g] = {}
              /\ DroppedFromSet(g) => reqStatus[g] = "finished"]_vars

\* a Request has run again after its listing, and is kept ready in the
\* working set with a download still 'downloading'
C15_Witness ==
    \E g \in Range(restores) :
        /\ up /\ queue = <<>>
        /\ reqStatus[g] = "ready" /\ HasDownloading(g)
        /\ files[g] # {} /\ valSize[g] # NULL /\ valSize[g] = reqSize[g]

(* --------------------------- restore.request -------------------------- *)
\* the rows of the requests table that carry guid g
RowsWithGuid(g) == {i \in 1..Len(reqRows) : reqRows[i] = g}

\* C22: no two rows of the requests table share a guid, and a row is added
\* only for a guid that has no row, one row at a time
C22_GuidUnique ==
    /\ [](\A g \in GUIDs : Cardinality(RowsWithGuid(g)) <= 1)
    /\ [][reqRows' # reqRows
            => \E g \in GUIDs : /\ RowsWithGuid(g) = {}
                                 /\ reqRows' = Append(reqRows, g)]_vars

\* the remote service has just answered with the guid of a Request that
\* is finished and dropped: no row was added
C22_Witness ==
    /\ up /\ asked \in GUIDs
    /\ reqStatus[asked] = "finished" /\ asked \notin Range(restores)
    /\ Cardinality(RowsWithGuid(asked)) = 1

\* C29: when the restore request fails (URLError or the answer "fail") no
\* row is persisted and the working set is left as it is; a row is persisted
\* only for a returned guid, with status 'waiting', and a restore is added
\* to the working set only with that guid and its new row
C29_FailedRequestNoop ==
    [][ /\ asked' \in {RespFail, RespURLError}
            => /\ reqRows' = reqRows /\ reqStatus' = reqStatus
               /\ restores' = restores
        /\ Len(reqRows') > Len(reqRows)
            => \E g \in pool :
                 /\ reqRows' = Append(reqRows, g)
                 /\ reqStatus'[g] = "waiting"
                 /\ up' => (asked' = g /\ restores' = Append(restores, g))
        /\ Admitted
            => /\ asked' \in pool
               /\ restores' = Append(restores, asked')
               /\ reqRows' = Append(reqRows, asked')
               /\ reqStatus'[asked'] = "waiting" ]_vars

\* a tick has just asked for a restore while one Request is tracked and
\* guids are to be had; the service answered "fail": nothing was added
C29_Witness ==
    /\ up /\ asked = RespFail
    /\ Len(reqRows) = 1 /\ restores = reqRows /\ queue = restores
    /\ \E g \in pool : reqStatus[g] = "none"

(* ----------------------------- reconciliation ------------------------ *)
\* a step in which restore.download() writes worker statuses to the store
Reconciles == up /\ up' /\ (dl' # dl \/ attempts' # attempts)

\* the Download of file f of Request g has the status of its last Attempt
MatchesLastAttempt(g, f) ==
    (dl[g][f].status # "none" /\ attempts[g][f] # <<>>)
        => dl[g][f].status = Last(attempts[g][f])

\* C30: after every reconciliation each Download has the status of its most
\* recent Attempt
C30_DownloadMatchesAttempt ==
    [][Reconciles => \A g \in GUIDs, f \in Files : MatchesLastAttempt(g, f)']_vars

(* ------------------------ the loop of a poll tick --------------------- *)
\* a Request the running orchestrator tracks before and after the step
Tracked(g) == up /\ up' /\ g \in Range(restores)

\* C28: the orchestrator removes a Request from its working set only in a
\* step that leaves its persisted status 'finished' or 'failed', and only
\* the Request it is running; a Request that is 'waiting', or 'ready' with
\* downloads that do not meet the completion rule, stays
C28_DropOnlyTerminal ==
    [][\A g \in GUIDs :
         /\ DroppedFromSet(g)
              => /\ reqStatus'[g] \in {"finished", "failed"}
                 /\ queue # <<>> /\ g = Head(queue)
         /\ (Tracked(g) /\ (reqStatus[g] = "waiting"
                             \/ (reqStatus[g] = "ready" /\ ~CompletionRule(g))))
              => g \in Range(restores')]_vars

(* ====================================================================== *)
(* Properties of the job lifecycle manager                                *)
(* ====================================================================== *)
\* a step of rotate's loop over one job: it goes on, returns or raises
VisitStep == jpc = "pass" /\ idx <= Len(jobs) /\ (idx' # idx \/ jpc' # "pass")

\* a step of the manager itself: creation of the pool, top of rotate, a visit
ManagerStep == jpc' # jpc \/ idx' # idx

EligibleNew == {j \in Range(jobs) : Lower(GetStatus(j)) = "new job"}

\* C6: within one pass of rotate at most one submit (qsub) is performed,
\* however many jobs are in 'new job' status
C6_OneSubmitPerPass == nsub <= 1

\* a pass over two 'new job' jobs has submitted the first one
C6_Witness ==
    /\ nsub = 1
    /\ Cardinality(EligibleNew) = 2
    /\ subs[jobs[1]] = 1
    /\ err = "AttributeError"

\* the statuses that keep the datafiles of a job in demand
\* (update_demand_file_list), on a sequence of log statuses
FailsIn(sq) == Cardinality({i \in 1..Len(sq) : Lower(sq[i]) = "processing failed"})

Demanded(sq) ==
    /\ sq # <<>>
    /\ \/ Lower(Last(sq)) \in {"submitted to queue", "processing in progress",
                               "processing successful", "new job"}
       \/ Lower(Last(sq)) = "processing failed" /\ FailsIn(sq) < maxAttempts

\* C7: no datafile is missing from the disk while a tracked job that uses it
\* is in a demand status, by the entries the manager holds or by its log file
C7_DemandSafety ==
    \A j \in Range(jobs) :
        (Demanded(logentries[j]) \/ Demanded(logfile[j]))
            => Range(jfiles[j]) \subseteq disk

\* delete_job has been called for a job the manager holds as uploaded while
\* a second submission of it is running; its datafile is still there
C7_Witness ==
    /\ err = "NameError"
    /\ jobs # <<>> /\ idx <= Len(jobs)
    /\ LET j == jobs[idx] IN
         /\ Lower(GetStatus(j)) = "upload successful"
         /\ Lower(Last(logfile[j])) = "processing in progress"
         /\ Range(jfiles[j]) \subseteq disk

\* C8: the visit of a job whose last status is 'processing failed' resubmits
\* it when a slot is free and its failures are below max_attempts, and
\* deletes it once they have reached max_attempts
C8_FailedRetriedOrDeleted ==
    [][ (VisitStep /\ Lower(GetStatus(jobs[idx])) = "processing failed")
          => LET j == jobs[idx] IN
               IF CountStatus(j, "processing failed") < maxAttempts
               THEN cansubmit => subs'[j] = subs[j] + 1
               ELSE \/ j \notin Range(jobs')
                    \/ Lower(Last(logfile'[j])) = "deleted" ]_vars

\* C9: after every step of the manager the status held in memory is the last
\* entry of the log file, and a submit has appended 'Submitted to queue'
C9_StatusIsLastLogEntry ==
    [][ ManagerStep
          => /\ \A j \in Range(jobs') :
                   Last(logentries'[j]) = Last(logfile'[j])
             /\ \A j \in Jobs :
                   subs'[j] > subs[j] => Last(logfile'[j]) = "Submitted to queue" ]_vars

\* C16: the visit of a job whose last status is none of the six recognized
\* ones raises ValueError out of rotate: the pass ends there, and the job is
\* neither submitted nor deleted
C16_UnknownStatusFatal ==
    [][ (VisitStep /\ Lower(GetStatus(jobs[idx])) \notin Recognized)
          => /\ err' = "ValueError" /\ jpc' = "down" /\ idx' = idx
             /\ subs' = subs /\ pbsQ' = pbsQ
             /\ disk' = disk /\ logfile' = logfile /\ jobs' = jobs ]_vars

\* the pass went by a first job and was ended by the second one, whose
\* status is unknown
C16_Witness ==
    /\ err = "ValueError" /\ jpc = "down"
    /\ idx = 2 /\ Len(jobs) = 2
    /\ Lower(GetStatus(jobs[2])) \notin Recognized
    /\ nsub = 0

\* the creation of the job pool, at the start of the manager
PoolCreated == jpc = "down" /\ jpc' = "idle"

\* C18: when the manager starts, a job whose log file exists holds the
\* entries of that file, its status is the last one logged and the file is
\* left as it is; a job without a log file gets the single entry 'New job'
C18_RebuiltFromLog ==
    [][PoolCreated =>
         \A j \in Range(jobs') :
            IF logfile[j] # <<>>
            THEN /\ logfile'[j] = logfile[j]
                 /\ logentries'[j] = logfile[j]
                 /\ Last(logentries'[j]) = Last(logfile[j])
            ELSE /\ logfile'[j] = <<"New job">>
                 /\ logentries'[j] = <<"New job">>]_vars

\* the manager has been started again after a run that submitted a job,
\* and holds the job with the status its log file had reached meanwhile
C18_Witness ==
    /\ jpc = "idle" /\ idx = 1 /\ nsub = 0
    /\ \E j \in Range(jobs) :
         /\ subs[j] >= 1
         /\ Len(logfile[j]) >= 2
         /\ logentries[j] = logfile[j]
         /\ GetStatus(j) = "processing in progress"

(* ====================================================================== *)
(* Properties of JobLog.read                                              *)
(* ====================================================================== *)
\* a line with text before its comment sign that has fewer than the four
\* fields of the grammar
Malformed(line) ==
    LET text == StripComment(line)
    IN /\ \E i \in 1..Len(text) : text[i] # Blank
       /\ Cardinality({i \in 1..Len(text) : text[i] = Sep}) < 3

HasText(line) == \E i \in 1..Len(StripComment(line)) : StripComment(line)[i] # Blank

\* C17: the read of a log with a malformed line raises ValueError and yields
\* no entry, whatever the other lines are; without such a line it yields one
\* entry per line that has text before its comment sign
C17_MalformedLineFailsRead ==
    rdpc = "done" =>
        IF \E i \in 1..Len(rawlog) : Malformed(rawlog[i])
        THEN rderr = "ValueError" /\ rdentries = <<>>
        ELSE /\ rderr = ""
             /\ Len(rdentries) = Cardinality({i \in 1..Len(rawlog) : HasText(rawlog[i])})

\* a log of two good entries around a line cut short by a comment sign has
\* been read
C17_Witness ==
    /\ rdpc = "done" /\ rderr = "ValueError" /\ rdentries = <<>>
    /\ Len(rawlog) = 3
    /\ rawlog[1] = GoodLine /\ rawlog[3] = FailLine
    /\ Malformed(rawlog[2]) /\ \E i \in 1..Len(rawlog[2]) : rawlog[2][i] = Hash

(* ====================================================================== *)
(* Properties of jobtracker.query                                         *)
(* ====================================================================== *)
DmlOf(b) == {i \in 1..Len(b) : b[i] = "dml"}

\* C19: at every moment the database holds the effects of all the
\* statements of the batch or of none, and of none when query() raised
C19_BatchAtomic ==
    /\ \A i, j \in DmlOf(qbatch) : qdb[i] = qdb[j]
    /\ qpc = "raised" => \A i \in DmlOf(qbatch) : qdb[i] = 0

\* a statement other than the first failed: query() raised after statements
\* had been executed, and after a retry
C19_Witness ==
    /\ qpc = "raised" /\ qerr = "IntegrityError"
    /\ qi >= 2 /\ Cardinality(DmlOf(qbatch)) >= 2 /\ qbatch[1] = "dml"
    /\ qfails[1] >= 1
    /\ \A i \in DmlOf(qbatch) : qdb[i] = 0

\* C20: a lock error never ends the call: the whole batch is tried again
\* with nothing committed; and when the call returns the batch is applied
\* exactly once
C20_LockRetried ==
    /\ [][qfails'[1] > qfails[1]
            => /\ qpc' = "connect" /\ qi' = 1 /\ qerr' = ""
               /\ qtx' = NoEffects(qbatch) /\ qdb' = qdb]_vars
    /\ [](qpc = "returned" /\ qbatch # <<>>
            => \A i \in DmlOf(qbatch) : qdb[i] = 1)

\* the call returned after lock errors during the statements and at commit
C20_Witness ==
    /\ qpc = "returned" /\ qfails[1] = MaxFailures
    /\ Cardinality(DmlOf(qbatch)) >= 2
    /\ \A i \in DmlOf(qbatch) : qdb[i] = 1

(* ------------------------- concurrent calls --------------------------- *)
\* the outcome of the statements of batch b from position i on, run alone
\* on a database that holds x
RECURSIVE RunAlone(_, _, _, _)
RunAlone(b, i, x, r) ==
    IF i > Len(b) THEN [db |-> x, res |-> r]
    ELSE RunAlone(b, i + 1, Apply(b[i], x), IF b[i] = "read" THEN x ELSE NULL)

\* the outcome of the calls run one after the other in the given order
RECURSIVE RunSerial(_, _, _)
RunSerial(order, x, rs) ==
    IF order = <<>> THEN [db |-> x, res |-> rs]
    ELSE LET o == RunAlone(cbatch[Head(order)], 1, x, NULL)
         IN RunSerial(Tail(order), o.db, [rs EXCEPT ![Head(order)] = o.res])

Orders == {o \in [1..Cardinality(Callers) -> Callers] : Range(o) = Callers}

AllReturned == \A c \in Callers : cpc[c] = "returned"

SerialOutcome ==
    \E o \in Orders :
        LET out == RunSerial(o, 0, [c \in Callers |-> NULL])
        IN cdb = out.db /\ cres = out.res

\* a caller executes a statement while the call of another caller has
\* executed a statement and has not committed yet
Interleaved ==
    \E c \in Callers :
        /\ ci'[c] = ci[c] + 1
        /\ \E d \in Callers \ {c} : ci[d] > 1 /\ cpc[d] # "returned"

\* C21 as stated: the outcome is that of a serial order, and no statement
\* of a call is executed between the statements and the commit of another
C21_NeverInterleave ==
    /\ [](AllReturned => SerialOutcome)
    /\ [][~Interleaved]_vars

\* C21: when the concurrent calls have returned, the database and the
\* results returned are those of the calls run one after the other in some
\* order
C21_SerialOutcome == AllReturned => SerialOutcome

\* two calls that both write and read have returned after one of them met
\* a locked database; the orders of the calls give different outcomes
C21_Witness ==
    /\ AllReturned /\ cbusy >= 1
    /\ cbatch[1] = <<"inc", "read">> /\ cbatch[2] = <<"set", "read">>
    /\ cres[1] = 8 /\ cres[2] = 7

(* ====================================================================== *)
(* Properties of the job lifecycle manager: submissions and deletions     *)
(* ====================================================================== *)
\* job j is submitted (qsub) in this step
Submitted(j) == subs'[j] > subs[j]

\* the log file of j has a 'processing failed' entry written since its
\* last submission
FailedSince(j) ==
    \E i \in (sublen[j] + 1)..Len(logfile[j]) : Lower(logfile[j][i]) = "processing failed"

\* C23: a job that has been submitted is submitted again only if its log
\* has got a 'processing failed' entry since
C23_FailureBetweenSubmits ==
    [][\A j \in Jobs : (Submitted(j) /\ subs[j] >= 1) => FailedSince(j)]_vars

\* C24: over its lifetime a job is submitted at most max_attempts times
C24_SubmitBound == \A j \in Jobs : subs[j] <= maxAttempts

\* the status the manager holds for j is one that ends the job
Done(j) ==
    \/ Lower(GetStatus(j)) = "upload successful"
    \/ /\ Lower(GetStatus(j)) = "processing failed"
       /\ CountStatus(j, "processing failed") >= maxAttempts

\* a datafile of j is used by another tracked job that is in demand
InDemandElsewhere(j) ==
    \E k \in Range(jobs) \ {j} :
        /\ Range(jfiles[k]) \cap Range(jfiles[j]) # {}
        /\ Demanded(logentries[k])

\* C25: the visit of a job that is done and whose datafiles no other job in
\* demand uses deletes it: the datafiles are removed, the job leaves the
\* tracked set, and no error is raised
C25_DoneJobDeleted ==
    [][ (VisitStep /\ Done(jobs[idx]) /\ ~InDemandElsewhere(jobs[idx]))
          => LET j == jobs[idx] IN
               /\ Range(jfiles[j]) \cap disk' = {}
               /\ j \notin Range(jobs')
               /\ jpc' # "down" /\ err' = "" ]_vars

\* job j is deleted in this step: a datafile of it is removed, it leaves
\* the tracked set during a pass, or 'Deleted' is written to its log
DeletedNow(j) ==
    \/ Range(jfiles[j]) \subseteq disk /\ ~(Range(jfiles[j]) \subseteq disk')
    \/ jpc = "pass" /\ j \in Range(jobs) /\ j \notin Range(jobs')
    \/ Len(logfile'[j]) > Len(logfile[j]) /\ Lower(Last(logfile'[j])) = "deleted"

PassEnds == jpc = "pass" /\ jpc' # "pass"

\* the jobs the loop of the pass has visited when the pass ends: all before
\* position idx, and the one at idx if its visit raised
VisitedAtEnd == IF jpc' = "down" THEN idx' ELSE idx' - 1

\* C27: a pass visits every job tracked at its start (the loop visits them
\* in order, each once)
C27_PassVisitsAll ==
    [][PassEnds => (VisitedAtEnd = Len(jobs) /\ jobs' = jobs)]_vars

(* ====================================================================== *)
(* Properties of the download worker                                      *)
(* ====================================================================== *)
\* C31: a worker whose login or cwd the server has rejected ends its attempt
\* with status 'failed' at once: it does not go on to the transfer
C31_RejectionEndsAttempt ==
    \A t \in threads : t.rej => (t.pc = "dead" /\ t.status = "failed")

\* the same worker before and after a step
SameWorker(t, u) == u.g = t.g /\ u.f = t.f /\ u.n = t.n

\* a step in which the connection loop of worker t meets an exception
MetTransient(t) ==
    \E u \in threads' : SameWorker(t, u) /\ u.tries = t.tries + 1

\* C32: an exception in the connection loop of a worker leaves the worker in
\* the loop with the status it had, and adds no Attempt row and writes
\* nothing to the store; a worker in the loop is the last Attempt of its
\* Download, and neither is reported 'failed'
C32_TransientRetried ==
    /\ [][\A t \in threads :
            MetTransient(t)
              => /\ \E u \in threads' :
                      /\ SameWorker(t, u)
                      /\ u.pc = "conn" /\ u.status = t.status
                 /\ threads' \ {u \in threads' : SameWorker(t, u)}
                      = threads \ {t}
                 /\ attempts' = attempts /\ dl' = dl
                 /\ downloaders' = downloaders]_vars
    /\ [](\A t \in threads :
            t.pc = "conn"
              => /\ t.status # "failed"
                 /\ Len(attempts[t.g][t.f]) = t.n
                 /\ attempts[t.g][t.f][t.n] \in {"", "downloading"}
                 /\ dl[t.g][t.f].status # "failed")

\* the first worker of a download has met two exceptions in its connection
\* loop, was seen alive by the orchestrator, and is now transferring
C32_Witness ==
    \E t \in threads :
        /\ t.tries >= 2 /\ t.pc = "xfer" /\ t.n = 1 /\ ~t.rej
        /\ attempts[t.g][t.f] = <<"downloading">>
        /\ dl[t.g][t.f].status = "downloading"

(* ====================================================================== *)
(* Properties of the listing and of the download rows                     *)
(* ====================================================================== *)
\* the remote files of the auxiliary format, by their name
Auxiliary(f) == f = FileAux

DataFiles(g) == {f \in Listing(g) : ~Auxiliary(f)}

\* a step in which create_dl_entries has run to its end for Request g
RowsCreated(g) == up' /\ RowsOf(g) = {} /\ RowsOf(g)' # {}

Raised == jpc = "pass" /\ err' # ""

\* C34: when rotate raises, the error notifier is invoked in the same step
\* in which the exception leaves the driver, and the process ends: no
\* further job is visited and no further pass is started in it
C34_FatalNotified ==
    /\ [][Raised => (notified' \in {"sent", "failed"} /\ jpc' = "down")]_vars
    /\ [](err # "" => (jpc = "down" /\ notified # ""))
    /\ [][jpc = "down" => jpc' \in {"down", "idle"}]_vars

\* the second job of a pass has an unknown status: ValueError has left
\* rotate, the notifier has been invoked and has returned
C34_Witness ==
    /\ err = "ValueError" /\ notified = "sent" /\ jpc = "down"
    /\ idx = 2 /\ Len(jobs) = 2

\* the queued jobs of the batch queue that carry the pipeline's name
PipelineQueued == SumOver(Jobs, pbsQ)

\* the top of rotate
PassStarts == jpc = "idle" /\ jpc' = "pass"

\* C35: a pass that starts while a pipeline job is queued submits nothing:
\* rotate may submit exactly when no pipeline job is queued at its top,
\* whatever is running or queued under other names; the permission is
\* never gained inside the pass, and a submit needs it
C35_QueuedBlocksSubmit ==
    /\ [][PassStarts => (cansubmit' = (PipelineQueued = 0) /\ nsub' = 0)]_vars
    /\ [][(jpc = "pass" /\ cansubmit') => cansubmit]_vars
    /\ [][(nsub' > nsub \/ subs' # subs) => (jpc = "pass" /\ cansubmit)]_vars

\* a job has been submitted in a pass while another pipeline job was
\* running and a job of another name was queued
C35_Witness ==
    /\ nsub = 1 /\ err = "AttributeError"
    /\ NumRunning >= 1 /\ foreignQ >= 1
    /\ PipelineQueued = 1

(* ------------------------------ delete_job ---------------------------- *)
\* a datafile of j is used by a tracked job that is in demand, by the
\* entries the manager holds or by the job's log file
InDemandTracked(j) ==
    \E k \in Range(jobs) :
        /\ Range(jfiles[k]) \cap Range(jfiles[j]) # {}
        /\ (Demanded(logentries[k]) \/ Demanded(logfile[k]))

\* the visit of a job that rotate hands to delete_job
DeleteVisit(j) == VisitStep /\ jobs[idx] = j /\ Done(j)

\* C36: the deletion of a job one of whose datafiles is in demand by a
\* tracked job removes none of its datafiles, logs nothing, leaves its log
\* file in place and keeps the job tracked with the status it had
C36_DeleteAllOrNothing ==
    [][\A j \in Range(jobs) :
         (DeleteVisit(j) /\ InDemandTracked(j))
           => /\ Range(jfiles[j]) \cap disk \subseteq disk'
              /\ logfile'[j] = logfile[j]
              /\ jobs' = jobs
              /\ logentries'[j] = logentries[j]]_vars

\* with config.delete_rawdata unset, the pass has gone by a first job held
\* as uploaded whose datafile a second run of it still uses: the job is
\* tracked, its datafile and its log are in place
C36_Witness ==
    /\ ~deleteRaw /\ err = "" /\ idx = 2 /\ Len(jobs) = 2
    /\ LET j == jobs[1] IN
         /\ Lower(GetStatus(j)) = "upload successful"
         /\ Lower(Last(logfile[j])) = "processing in progress"
         /\ InDemandTracked(j)
         /\ Range(jfiles[j]) \subseteq disk

(* ====================================================================== *)
(* Properties of the reconciliation across Requests                       *)
(* ====================================================================== *)
\* a step in which the orchestrator runs the restore at the head of its queue
RunsRestore == up /\ up' /\ queue # <<>> /\ queue' = Tail(queue)

\* C37: running the restore of Request R changes Download and Attempt rows
\* of R only: the rows of every other Request, also of one that lists the
\* same remote filename, are left as they are
C37_ReconcileOwnRowsOnly ==
    [][RunsRestore
         => \A g \in GUIDs \ {Head(queue)} :
                dl'[g] = dl[g] /\ attempts'[g] = attempts[g]]_vars

(* ====================================================================== *)
(* Termination of a ready Request                                         *)
(* ====================================================================== *)
Terminal(g) == reqStatus[g] \in {"finished", "failed"}

\* C38: a Request that is ready eventually has a terminal status and is out
\* of the working set, also across crashes and restarts
C38_ReadyTerminates ==
    (reqStatus[FaultGuid] = "ready")
        ~> (Terminal(FaultGuid) /\ FaultGuid \notin Range(restores))

(* ====================================================================== *)
(* Properties of the creation of the download rows and of the sizes       *)
(* ====================================================================== *)
\* C39: a Request that has Download rows is marked finished only when
\* every data file of its restore directory has a row, also when a crash
\* interrupted the creation of the rows
C39_RowsCompleteBeforeFinished ==
    \A g \in GUIDs :
        (reqStatus[g] = "finished" /\ RowsOf(g) # {})
            => \A f \in DataFiles(g) : dl[g][f].status # "none"

\* C40: the size persisted for a Request is the sum of the sizes of its
\* data files, each counted once
C40_SizeCountsEachFileOnce ==
    \A g \in GUIDs :
        reqSize[g] # NULL => reqSize[g] = ListedSize(DataFiles(g))
====
